---- MODULE Spec2Model ----
(***************************************************************************)
(* A model of mcp_searxng: the SearXNG HTTP client (client.py), the        *)
(* pydantic models it parses the upstream JSON into (models.py), the       *)
(* settings it is constructed from (config.py) and the three MCP tool      *)
(* entry points with their formatter (server.py).                          *)
(*                                                                         *)
(* Python coroutines run on one event loop: a task runs without            *)
(* interruption from one await that really suspends to the next.  The      *)
(* suspension points of the code are the awaited network request           *)
(* (client.get) and the awaited transport close (aclose); every action     *)
(* below is the code between two such points.                              *)
(***************************************************************************)
EXTENDS Integers, Sequences, FiniteSets, TLC

(***************************************************************************)
(* Bounds of the model.                                                    *)
(***************************************************************************)
\* tasks that use one shared client concurrently
MaxTasks == 2
\* operations (search / close / tool invocations) started in one behaviour
MaxOps == 4
\* operations started in a behaviour that explores the response bodies
DataOps == 2
\* length of the upstream `results` array
MaxLen == 3
\* most suggestions a response handed to the formatter holds
MaxSuggestions == 4

(***************************************************************************)
(* JSON values.  A key of a JSON object is absent (Missing), null (Null)   *)
(* or holds a value; strings are TLA+ strings.                             *)
(***************************************************************************)
Missing == "<missing>"
Null == "<null>"
\* Python's None, for the Optional[...] fields of the models
None == "<None>"

\* self._client = None: the handle field holds no httpx.AsyncClient
NoClient == 0

(***************************************************************************)
(* models.py: SearchResult                                                 *)
(***************************************************************************)
\* url strings the upstream is made to send, besides Missing / Null / ""
GoodUrls ==
    {"https://python.org", "https://pypi.org/p", "https://searxng.pixelcrazed.com"}
BadUrls == {" ", "not a url"}

\* pydantic's HttpUrl accepts an http(s) URL with a host and nothing else
IsHttpUrl(v) == v \in GoodUrls

\* str(HttpUrl(v)): the parsed URL, a bare host gaining its path "/"
HttpUrlStr(v) ==
    IF v = "https://python.org" THEN "https://python.org/"
    ELSE IF v = "https://searxng.pixelcrazed.com" THEN "https://searxng.pixelcrazed.com/"
    ELSE v

\* str.strip() on the strings of the model
strip(s) == IF s \in {"", " "} THEN "" ELSE s

\* @field_validator("url", mode="before")
validate_url(v) == IF v = "" \/ v = Null THEN None ELSE v

\* the JSON value under the key `content`: absent ("missing"), null or a
\* string, held as its sequence of characters
JMissing == [t |-> "missing", v |-> <<>>]
JNull == [t |-> "null", v |-> <<>>]
JStr(chars) == [t |-> "str", v |-> chars]

\* @field_validator("content", mode="before")
validate_content(v) == IF v.t = "null" THEN <<>> ELSE v.v

\* whether SearchResult(**e) raises pydantic's ValidationError
SearchResultRaises(e) ==
    \/ /\ e.url # Missing
       /\ validate_url(e.url) # None
       /\ ~IsHttpUrl(validate_url(e.url))
    \/ e.title = Null

\* SearchResult(**e) for an entry that does not raise
SearchResult(e) ==
    [ url     |-> IF e.url = Missing THEN None
                  ELSE IF validate_url(e.url) = None THEN None
                  ELSE HttpUrlStr(validate_url(e.url)),
      title   |-> IF e.title = Missing THEN "" ELSE e.title,
      content |-> IF e.content.t = "missing" THEN <<>> ELSE validate_content(e.content) ]

\* SearchResult.is_valid, with the title check dropped
is_valid_url_only(r) ==
    IF r.url = None THEN FALSE ELSE strip(r.url) # ""

\* SearchResult.is_valid
is_valid(r) ==
    IF r.url = None THEN FALSE
    ELSE LET url_str == strip(r.url)
         IN  r.title # "" /\ url_str # ""

(***************************************************************************)
(* Sequence helpers.                                                       *)
(***************************************************************************)
\* the Python slice s[:n], n >= 0
Slice(s, n) == SubSeq(s, 1, IF Len(s) < n THEN Len(s) ELSE n)

\* all sequences over S of length at most n
SeqUpTo(S, n) == UNION {[1..k -> S] : k \in 0..n}

(***************************************************************************)
(* models.py: SearchResponse                                               *)
(***************************************************************************)
\* one element of the upstream unresponsive_engines array: a JSON string
\* ("str"), a JSON array of strings ("list") or anything else ("other")
EngineItem(t, v) == [t |-> t, v |-> v]

\* a JSON scalar inside such an array: a string or a number
JsonStr(s) == [t |-> "str", v |-> s]
JsonNum(n) == [t |-> "num", n |-> n]

\* Python's str() of a JSON scalar
str(x) == IF x.t = "str" THEN x.v ELSE ToString(x.n)

\* validate_unresponsive_engines that keeps only the pairs [engine, reason]
\* and longer lists
RECURSIVE validate_unresponsive_engines_pairs(_)
validate_unresponsive_engines_pairs(v) ==
    IF v = <<>> THEN <<>>
    ELSE LET item == Head(v)
             rest == validate_unresponsive_engines_pairs(Tail(v))
         IN  IF item.t = "str" THEN <<item.v>> \o rest
             ELSE IF item.t = "list" /\ Len(item.v) > 1 THEN <<str(item.v[1])>> \o rest
             ELSE rest

\* @field_validator("unresponsive_engines", mode="before"), for a list
RECURSIVE validate_unresponsive_engines(_)
validate_unresponsive_engines(v) ==
    IF v = <<>> THEN <<>>
    ELSE LET item == Head(v)
             rest == validate_unresponsive_engines(Tail(v))
         IN  IF item.t = "str" THEN <<item.v>> \o rest
             ELSE IF item.t = "list" /\ Len(item.v) > 0 THEN <<str(item.v[1])>> \o rest
             ELSE rest

\* whether a key of the JSON object is present
Has(data, key) == key \notin data.absent

\* SearchResponseRaises with query an optional field
SearchResponseRaisesQueryOptional(data) ==
    \/ data.json # "object"
    \/ /\ Has(data, "results")
       /\ \E i \in 1..Len(data.results) : SearchResultRaises(data.results[i])

\* SearchResponseRaises with the entries of results not looked at
SearchResponseRaisesSkipEntries(data) ==
    \/ data.json # "object"
    \/ data.query \in {Missing, Null}

\* whether SearchResponse(**data) raises: data is no mapping (TypeError), or
\* the required query is absent or null, or an entry of results raises
SearchResponseRaises(data) ==
    \/ data.json # "object"
    \/ data.query \in {Missing, Null}
    \/ /\ Has(data, "results")
       /\ \E i \in 1..Len(data.results) : SearchResultRaises(data.results[i])

\* the exception SearchResponse(**data) raises
SearchResponseError(data) ==
    IF data.json # "object"
    THEN [type |-> "TypeError", message |-> "argument after ** must be a mapping",
          status_code |-> 0, text |-> ""]
    ELSE [type |-> "ValidationError", message |-> "validation error for SearchResponse",
          status_code |-> 0, text |-> ""]

\* SearchResponse(**data) for a body that does not raise
SearchResponse(data) ==
    [ query |-> data.query,
      number_of_results |->
          IF Has(data, "number_of_results") THEN data.number_of_results ELSE 0,
      results |->
          IF Has(data, "results")
          THEN [i \in 1..Len(data.results) |-> SearchResult(data.results[i])]
          ELSE <<>>,
      suggestions |-> IF Has(data, "suggestions") THEN data.suggestions ELSE <<>>,
      corrections |-> IF Has(data, "corrections") THEN data.corrections ELSE <<>>,
      unresponsive_engines |->
          IF Has(data, "unresponsive_engines")
          THEN validate_unresponsive_engines(data.unresponsive_engines)
          ELSE <<>> ]

\* [r for r in results if r.is_valid()]
RECURSIVE valid_only(_)
valid_only(results) ==
    IF results = <<>> THEN <<>>
    ELSE IF is_valid(Head(results))
         THEN <<Head(results)>> \o valid_only(Tail(results))
         ELSE valid_only(Tail(results))

\* SearchResponse.get_valid_results
get_valid_results(response) == valid_only(response.results)

(***************************************************************************)
(* models.py: SearchRequest                                                *)
(***************************************************************************)
\* the keyword arguments of search() besides query and page, with the
\* defaults of the SearchRequest fields
DefaultKwargs ==
    [categories |-> "general", language |-> None, time_range |-> None, safesearch |-> 1]

\* SearchRequestRaises with the constraint of q only
SearchRequestRaisesQueryOnly(query, page, kwargs) == query = ""

\* whether SearchRequest(q=query, pageno=page, **kwargs) raises
SearchRequestRaises(query, page, kwargs) ==
    \/ query = ""
    \/ page < 1
    \/ kwargs.safesearch < 0
    \/ kwargs.safesearch > 2

SearchRequest(query, page, kwargs) ==
    [ q |-> query, format |-> "json", categories |-> kwargs.categories,
      pageno |-> page, language |-> kwargs.language,
      time_range |-> kwargs.time_range, safesearch |-> kwargs.safesearch ]

\* Python truthiness of an Optional[str]
Truthy(v) == v # None /\ v # ""

\* SearchRequest.to_params that never sends time_range
to_params_no_time_range(request) ==
    [q |-> request.q, format |-> request.format, categories |-> request.categories,
     pageno |-> request.pageno, safesearch |-> request.safesearch]
    @@ (IF Truthy(request.language)
        THEN [language |-> request.language] ELSE <<>>)

\* SearchRequest.to_params
to_params(request) ==
    [q |-> request.q, format |-> request.format, categories |-> request.categories,
     pageno |-> request.pageno, safesearch |-> request.safesearch]
    @@ (IF Truthy(request.language)
        THEN [language |-> request.language] ELSE <<>>)
    @@ (IF Truthy(request.time_range)
        THEN [time_range |-> request.time_range] ELSE <<>>)

(***************************************************************************)
(* config.py: Settings                                                     *)
(***************************************************************************)
\* the environment Settings() reads, with the defaults of the fields
DefaultEnv ==
    [searxng_url |-> "https://searxng.pixelcrazed.com",
     searxng_timeout |-> 30, searxng_max_results |-> 10, mcp_transport |-> "stdio",
     mcp_port |-> 3000, log_level |-> "info", cache_enabled |-> "false"]

\* the strings pydantic reads a bool from
BoolStrings ==
    {"true", "false", "1", "0", "yes", "no", "on", "off", "t", "f", "y", "n"}

\* SettingsRaises with the integer fields bounded from below only
SettingsRaisesNoUpperLimit(env) ==
    \/ ~IsHttpUrl(env.searxng_url)
    \/ env.searxng_timeout < 1
    \/ env.searxng_max_results < 1
    \/ env.mcp_transport \notin {"stdio", "sse"}
    \/ env.mcp_port < 1
    \/ env.log_level \notin {"debug", "info", "warning", "error"}
    \/ env.cache_enabled \notin BoolStrings

\* whether Settings() raises pydantic's ValidationError
SettingsRaises(env) ==
    \/ ~IsHttpUrl(env.searxng_url)
    \/ env.searxng_timeout < 1
    \/ env.searxng_timeout > 300
    \/ env.searxng_max_results < 1
    \/ env.searxng_max_results > 100
    \/ env.mcp_transport \notin {"stdio", "sse"}
    \/ env.mcp_port < 1
    \/ env.mcp_port > 65535
    \/ env.log_level \notin {"debug", "info", "warning", "error"}
    \/ env.cache_enabled \notin BoolStrings

(***************************************************************************)
(* client.py: SearXNGClient                                                *)
(***************************************************************************)
\* an exception object: its class, str(e) and, for httpx.HTTPStatusError,
\* e.response.status_code and e.response.text
Exception(type, message, status_code, text) ==
    [type |-> type, message |-> message, status_code |-> status_code, text |-> text]

\* what a call does: return a value or raise an exception
Return(value) == [kind |-> "return", value |-> value]
Raise(exc) == [kind |-> "raise", exc |-> exc]

\* SearXNGClient._get_client that always builds a new httpx.AsyncClient
always_new_client(c, closed) ==
    [client |-> Len(closed) + 1, is_closed |-> Append(closed, FALSE)]

\* SearXNGClient._get_client: the handle to use and the AsyncClients that exist
\* after it; c is self._client, closed[h] is h.is_closed
_get_client(c, closed) ==
    IF c = NoClient \/ closed[c]
    THEN [client |-> Len(closed) + 1, is_closed |-> Append(closed, FALSE)]
    ELSE [client |-> c, is_closed |-> closed]

\* lines 85-92 of search with the cap applied before the validity filter
cap_then_filter(search_response, max_results) ==
    [search_response EXCEPT
        !.results = valid_only(Slice(search_response.results, max_results))]

\* lines 85-92 of search with number_of_results set to the results kept
limit_results_recount(search_response, max_results) ==
    LET valid_results == get_valid_results(search_response)
        kept == IF Len(valid_results) > max_results
                THEN Slice(valid_results, max_results)
                ELSE valid_results
    IN  [search_response EXCEPT !.results = kept, !.number_of_results = Len(kept)]

\* search, lines 85-92: keep the valid results, then at most max_results
limit_results(search_response, max_results) ==
    LET valid_results == get_valid_results(search_response)
    IN  [search_response EXCEPT
            !.results = IF Len(valid_results) > max_results
                        THEN Slice(valid_results, max_results)
                        ELSE valid_results]

\* httpx's message of an HTTPStatusError
StatusMessage(status_code) ==
    IF status_code >= 500 THEN "Server error for url /search"
    ELSE "Client error for url /search"

\* search, lines 75-109, with every failure turned into an empty response
search_swallow(reply, max_results) ==
    IF reply.kind = "response" /\ reply.status_code \in 200..299
       /\ reply.data.json # "invalid" /\ ~SearchResponseRaises(reply.data)
    THEN Return(limit_results(SearchResponse(reply.data), max_results))
    ELSE Return([query |-> "", number_of_results |-> 0, results |-> <<>>,
                 suggestions |-> <<>>, corrections |-> <<>>,
                 unresponsive_engines |-> <<>>])

\* search, lines 75-109: what the call does once client.get has ended with
\* `reply` (a response, a timeout or another transport error)
search_reply(reply, max_results) ==
    IF reply.kind = "timeout"
    THEN Raise(Exception("TimeoutException", "Request timed out", 0, ""))
    ELSE IF reply.kind = "error"
    THEN Raise(Exception("ConnectError", "All connection attempts failed", 0, ""))
    ELSE IF reply.status_code \notin 200..299
    THEN Raise(Exception("HTTPStatusError", StatusMessage(reply.status_code),
                         reply.status_code, reply.text))
    ELSE IF reply.data.json = "invalid"
    THEN Raise(Exception("JSONDecodeError", "Expecting value", 0, ""))
    ELSE IF SearchResponseRaises(reply.data)
    THEN Raise(SearchResponseError(reply.data))
    ELSE Return(limit_results(SearchResponse(reply.data), max_results))

(***************************************************************************)
(* server.py: format_search_results and the tool entry points.  A text is  *)
(* the sequence of its pieces; a content is held character by character.   *)
(***************************************************************************)
\* the default of max_content_len
DefaultMaxContentLen == 150

\* sep.join(parts), for a sequence of texts
RECURSIVE Join(_, _)
Join(parts, sep) ==
    IF parts = <<>> THEN <<>>
    ELSE IF Len(parts) = 1 THEN parts[1]
    ELSE parts[1] \o <<sep>> \o Join(Tail(parts), sep)

\* the snippet with the ellipsis also on a content of exactly the length
SnippetFromLen(content, max_content_len) ==
    IF content # <<>> /\ Len(content) >= max_content_len
    THEN SubSeq(content, 1, max_content_len) \o <<"...">>
    ELSE content

\* line 37: the snippet of a result
Snippet(content, max_content_len) ==
    IF content # <<>> /\ Len(content) > max_content_len
    THEN SubSeq(content, 1, max_content_len) \o <<"...">>
    ELSE content

\* the block numbered from 0, as enumerate without its start would
BlockFromZero(i, r, max_content_len) ==
    <<ToString(i - 1), ". ", r.title, "\n   URL: ",
      IF r.url = None THEN "None" ELSE r.url, "\n   ">>
    \o Snippet(r.content, max_content_len)

\* line 38: the block of the i-th result
Block(i, r, max_content_len) ==
    <<ToString(i), ". ", r.title, "\n   URL: ",
      IF r.url = None THEN "None" ELSE r.url, "\n   ">>
    \o Snippet(r.content, max_content_len)

\* format_search_results that lists every suggestion
format_all_suggestions(response, max_content_len) ==
    IF response.results = <<>>
    THEN <<"No results: ", response.query>>
    ELSE LET header == <<"Results for: ", response.query,
                         "\n(Launch parallel subagents to webfetch top 3-5 URLs and synthesize relevant info)\n">>
             blocks == [i \in 1..Len(response.results) |->
                           Block(i, response.results[i], max_content_len)]
             related ==
                 IF response.suggestions # <<>>
                 THEN << <<"\nRelated: ">>
                         \o Join([i \in 1..Len(response.suggestions) |->
                                     <<response.suggestions[i]>>], ", ") >>
                 ELSE <<>>
         IN  Join(<<header>> \o blocks \o related, "\n\n")

\* format_search_results that appends the suggestions to every text
format_always_related(response, max_content_len) ==
    LET header == <<"Results for: ", response.query,
                    "\n(Launch parallel subagents to webfetch top 3-5 URLs and synthesize relevant info)\n">>
        blocks == [i \in 1..Len(response.results) |->
                      Block(i, response.results[i], max_content_len)]
        related ==
            IF response.suggestions # <<>>
            THEN << <<"\nRelated: ">>
                    \o Join([i \in 1..Len(Slice(response.suggestions, 3)) |->
                                <<response.suggestions[i]>>], ", ") >>
            ELSE <<>>
    IN  IF response.results = <<>>
        THEN Join(<< <<"No results: ", response.query>> >> \o related, "\n\n")
        ELSE Join(<<header>> \o blocks \o related, "\n\n")

format_search_results(response, max_content_len) ==
    IF response.results = <<>>
    THEN <<"No results: ", response.query>>
    ELSE LET header == <<"Results for: ", response.query,
                         "\n(Launch parallel subagents to webfetch top 3-5 URLs and synthesize relevant info)\n">>
             blocks == [i \in 1..Len(response.results) |->
                           Block(i, response.results[i], max_content_len)]
             related ==
                 IF response.suggestions # <<>>
                 THEN << <<"\nRelated: ">>
                         \o Join([i \in 1..Len(Slice(response.suggestions, 3)) |->
                                     <<response.suggestions[i]>>], ", ") >>
                 ELSE <<>>
         IN  Join(<<header>> \o blocks \o related, "\n\n")

\* the three tools: the category each searches and the text its failure
\* string starts with
Tools == {"searxng_search", "searxng_search_images", "searxng_search_videos"}

ToolCategory(name) ==
    CASE name = "searxng_search" -> "general"
      [] name = "searxng_search_images" -> "images"
      [] name = "searxng_search_videos" -> "videos"

\* SearXNGClient.search_text that asks for the first page whatever page is
search_text_first_page(query, page) ==
    [query |-> query, page |-> 1,
     kwargs |-> [DefaultKwargs EXCEPT !.categories = "general"]]

\* SearXNGClient.search_text: the call of search it makes
search_text(query, page) ==
    [query |-> query, page |-> page,
     kwargs |-> [DefaultKwargs EXCEPT !.categories = "general"]]

\* the call of search a tool makes: searxng_search through search_text, the
\* others with their category
ToolSearch(name, query, page) ==
    IF name = "searxng_search" THEN search_text(query, page)
    ELSE [query |-> query, page |-> page,
          kwargs |-> [DefaultKwargs EXCEPT !.categories = ToolCategory(name)]]

ToolFailurePrefix(name) ==
    CASE name = "searxng_search" -> "Search failed: "
      [] name = "searxng_search_images" -> "Image search failed: "
      [] name = "searxng_search_videos" -> "Video search failed: "

\* the try block of a tool with the exception left to propagate
tool_body_reraise(name, outcome) ==
    IF outcome.kind = "return"
    THEN Return(format_search_results(outcome.value, DefaultMaxContentLen))
    ELSE outcome

\* the try/except of a tool: the text it returns for what search did
tool_body(name, outcome) ==
    IF outcome.kind = "return"
    THEN Return(format_search_results(outcome.value, DefaultMaxContentLen))
    ELSE Return(<<ToolFailurePrefix(name), outcome.exc.message>>)

(***************************************************************************)
(* The upstream: what client.get can end with.                             *)
(***************************************************************************)
Chars(n, c) == [i \in 1..n |-> c]

\* entries of the upstream `results` array
EntryPython == [url |-> "https://python.org", title |-> "Python", content |-> JStr(Chars(2, "c"))]
EntryPyPI == [url |-> "https://pypi.org/p", title |-> "PyPI", content |-> JNull]
EntryNoUrl == [url |-> Missing, title |-> "Python", content |-> JStr(Chars(2, "c"))]
EntryNullUrl == [url |-> Null, title |-> "PyPI", content |-> JMissing]
EntryEmptyUrl == [url |-> "", title |-> "Python", content |-> JNull]
EntryEmptyTitle == [url |-> "https://python.org", title |-> "", content |-> JStr(Chars(2, "c"))]
EntryNoTitle == [url |-> "https://pypi.org/p", title |-> Missing, content |-> JMissing]
EntryBadUrl == [url |-> "not a url", title |-> "Python", content |-> JNull]
EntryBlankUrl == [url |-> " ", title |-> "PyPI", content |-> JNull]
EntryNullTitle == [url |-> "https://python.org", title |-> Null, content |-> JNull]
EntryLong == [url |-> "https://pypi.org/p", title |-> "Long",
              content |-> JStr(Chars(DefaultMaxContentLen + 1, "x"))]

Entries ==
    {EntryPython, EntryPyPI, EntryNoUrl, EntryNullUrl, EntryEmptyUrl,
     EntryEmptyTitle, EntryNoTitle, EntryBadUrl, EntryNullTitle}

\* a JSON object with every key of the response present
Object(query, results) ==
    [json |-> "object", absent |-> {}, query |-> query, number_of_results |-> 10,
     results |-> results, suggestions |-> <<"python tutorial">>,
     corrections |-> <<>>,
     unresponsive_engines |->
         <<EngineItem("str", "bing"),
           EngineItem("list", <<JsonStr("artic"), JsonStr("parsing error")>>)>>]

\* a body that is no JSON object: not JSON at all, or a JSON array
NotJson == [Object("", <<>>) EXCEPT !.json = "invalid"]
JsonArray == [Object("", <<>>) EXCEPT !.json = "array"]

Response(status_code, text, data) ==
    [kind |-> "response", status_code |-> status_code, text |-> text, data |-> data]

\* the replies that carry no parsed body
Failures ==
    {[kind |-> "timeout", status_code |-> 0, text |-> "", data |-> NotJson],
     [kind |-> "error", status_code |-> 0, text |-> "", data |-> NotJson],
     Response(404, "Not Found", NotJson),
     Response(500, "Internal Server Error", NotJson),
     Response(200, "<html>", NotJson),
     Response(200, "[]", JsonArray)}

\* JSON objects that differ in the keys they hold
Shapes ==
    {Object(Missing, <<EntryPython>>), Object(Null, <<>>),
     Object("python", <<EntryPyPI, EntryBlankUrl>>),
     [Object("python", <<EntryPyPI, EntryEmptyUrl>>) EXCEPT
         !.unresponsive_engines =
             <<EngineItem("str", "bing"), EngineItem("list", <<>>),
               EngineItem("other", <<>>)>>],
     [Object("python", <<>>) EXCEPT !.absent = {"results", "number_of_results"}],
     [Object("python", <<EntryPython>>) EXCEPT
         !.absent = {"suggestions", "corrections", "unresponsive_engines"}]}

\* the bodies a behaviour draws from: every results array up to MaxLen when
\* the behaviour explores the bodies, a few otherwise
Bodies(m) ==
    IF m = "data"
    THEN {Object("python", r) : r \in SeqUpTo(Entries, MaxLen)} \cup Shapes
    ELSE {Object("python", <<>>), Object("python", <<EntryPython>>),
          Object("python", <<EntryLong, EntryNoUrl, EntryPyPI>>),
          Object("python", <<EntryPython, EntryBadUrl>>)} \cup Shapes

Replies(m) == Failures \cup {Response(200, "{...}", d) : d \in Bodies(m)}

\* the arguments the callers pass: every kind of them when one task calls,
\* an accepted and a rejected request when tasks interleave
Queries == {"", "python"}
Pages(m) == IF m = "client" THEN {1} ELSE {0, 1, 2}
Kwargs(m) ==
    IF m = "client" THEN {DefaultKwargs}
    ELSE {DefaultKwargs, [DefaultKwargs EXCEPT !.safesearch = 3],
          [DefaultKwargs EXCEPT !.safesearch = -1],
          [DefaultKwargs EXCEPT !.categories = "images"]}

\* the environments Settings() is built from
Envs ==
    {DefaultEnv} \cup
    {[DefaultEnv EXCEPT !.searxng_max_results = m] : m \in {0, 1, 2, 101}} \cup
    {[DefaultEnv EXCEPT !.searxng_timeout = t] : t \in {0, 301}}

(***************************************************************************)
(* The state.                                                              *)
(***************************************************************************)
VARIABLES
    mode,        \* what the behaviour exercises: "client", "data" or "tool"
    settings,    \* self.settings of the client
    _client,     \* self._client: a handle, or NoClient
    is_closed,   \* is_closed[h]: h.is_closed, for every AsyncClient built so far
    n_search,    \* calls of search
    n_accepted,  \* calls of search whose SearchRequest was built
    n_requests,  \* outbound GETs
    ops,         \* operations started
    pc,          \* pc[t]: where task t is suspended: "idle", "get", "aclose"
    local,       \* local[t]: the locals of the suspended call of task t
    last,        \* the call that ran in the last step and how it ended
    tool         \* the tool invocation in progress

vars ==
    <<mode, settings, _client, is_closed, n_search, n_accepted, n_requests,
      ops, pc, local, last, tool>>

Tasks == 1..MaxTasks

\* tasks share the client only when the behaviour exercises the client
Active == IF mode = "client" THEN Tasks ELSE {1}

Budget == IF mode = "data" THEN DataOps ELSE MaxOps

NoLocal == [client |-> NoClient]
NoSearch == [sent |-> FALSE]
NoTool == [name |-> "", state |-> "idle", search |-> NoSearch, outcome |-> Return(<<>>)]

\* SearXNGClient.__init__, then nothing has run
InitWith(m, envs) ==
    /\ mode = m
    /\ settings \in envs
    /\ _client = NoClient
    /\ is_closed = <<>>
    /\ n_search = 0
    /\ n_accepted = 0
    /\ n_requests = 0
    /\ ops = 0
    /\ pc = [t \in Tasks |-> "idle"]
    /\ local = [t \in Tasks |-> NoLocal]
    /\ last = [op |-> "init"]
    /\ tool = NoTool

ValidEnvs == {e \in Envs : ~SettingsRaises(e)}

(***************************************************************************)
(* SearXNGClient.search                                                    *)
(***************************************************************************)
\* search up to the first suspension: the request is rejected, or the
\* handle is fetched and the GET goes out
SearchCall(t, query, page, kwargs) ==
    /\ pc[t] = "idle"
    /\ ops < Budget
    /\ ops' = ops + 1
    /\ n_search' = n_search + 1
    /\ IF SearchRequestRaises(query, page, kwargs)
       THEN /\ last' = [op |-> "search", task |-> t, sent |-> FALSE,
                        params |-> [q |-> query, pageno |-> page,
                                    safesearch |-> kwargs.safesearch],
                        outcome |-> Raise(Exception("ValidationError",
                                       "validation error for SearchRequest", 0, ""))]
            /\ UNCHANGED <<_client, is_closed, n_accepted, n_requests, pc, local>>
       ELSE LET got == _get_client(_client, is_closed)
            IN  /\ _client' = got.client
                /\ is_closed' = got.is_closed
                /\ n_accepted' = n_accepted + 1
                /\ n_requests' = n_requests + 1
                /\ pc' = [pc EXCEPT ![t] = "get"]
                /\ local' = [local EXCEPT ![t] =
                       [client |-> got.client]]
                /\ last' = [op |-> "get", task |-> t,
                            params |-> to_params(SearchRequest(query, page, kwargs))]
    /\ UNCHANGED <<mode, settings, tool>>

\* SearchReturn with one retry of a request that timed out
SearchRetry(t, reply) ==
    /\ pc[t] = "get"
    /\ IF reply.kind = "timeout" /\ n_requests < MaxOps + 1
       THEN /\ n_requests' = n_requests + 1
            /\ UNCHANGED <<pc, local, last>>
       ELSE /\ pc' = [pc EXCEPT ![t] = "idle"]
            /\ local' = [local EXCEPT ![t] = NoLocal]
            /\ last' = [op |-> "search", task |-> t, sent |-> TRUE, reply |-> reply,
                        outcome |-> search_reply(reply, settings.searxng_max_results)]
            /\ UNCHANGED n_requests
    /\ UNCHANGED <<mode, settings, _client, is_closed, n_search, n_accepted, ops, tool>>

\* search from the end of client.get to its return or raise
SearchReturn(t, reply) ==
    /\ pc[t] = "get"
    /\ pc' = [pc EXCEPT ![t] = "idle"]
    /\ local' = [local EXCEPT ![t] = NoLocal]
    /\ last' = [op |-> "search", task |-> t, sent |-> TRUE, reply |-> reply,
                outcome |-> search_reply(reply, settings.searxng_max_results)]
    /\ UNCHANGED <<mode, settings, _client, is_closed, n_search, n_accepted,
                   n_requests, ops, tool>>

(***************************************************************************)
(* SearXNGClient.close.  httpx.AsyncClient.aclose marks the client closed  *)
(* before it awaits the close of its transport.                            *)
(***************************************************************************)
\* close up to its suspension in aclose, or to its return when there is no
\* open handle
CloseCall(t) ==
    /\ pc[t] = "idle"
    /\ ops < Budget
    /\ ops' = ops + 1
    /\ IF _client # NoClient /\ ~is_closed[_client]
       THEN /\ is_closed' = [is_closed EXCEPT ![_client] = TRUE]
            /\ pc' = [pc EXCEPT ![t] = "aclose"]
            /\ local' = [local EXCEPT ![t] = [NoLocal EXCEPT !.client = _client]]
            /\ last' = [op |-> "aclose", task |-> t]
       ELSE /\ last' = [op |-> "close", task |-> t, waited |-> FALSE, held |-> _client]
            /\ UNCHANGED <<is_closed, pc, local>>
    /\ UNCHANGED <<mode, settings, _client, n_search, n_accepted, n_requests, tool>>

\* close from the end of aclose: line 41, self._client = None
CloseReturn(t) ==
    /\ pc[t] = "aclose"
    /\ _client' = NoClient
    /\ pc' = [pc EXCEPT ![t] = "idle"]
    /\ local' = [local EXCEPT ![t] = NoLocal]
    /\ last' = [op |-> "close", task |-> t, waited |-> TRUE,
                held |-> local[t].client]
    /\ UNCHANGED <<mode, settings, is_closed, n_search, n_accepted, n_requests,
                   ops, tool>>

(***************************************************************************)
(* server.py: searxng_search, searxng_search_images, searxng_search_videos *)
(*                                                                         *)
(*     async with SearXNGClient() as client:                               *)
(*         try: response = await client.search(...)                        *)
(*              return await format_search_results(response)               *)
(*         except Exception as e: return f"... failed: {str(e)}"           *)
(*                                                                         *)
(* The client of an invocation is its own; task 1 runs the invocation.     *)
(***************************************************************************)
\* the tool's view of the search it made
Searched(reply, outcome) == [sent |-> TRUE, reply |-> reply, outcome |-> outcome]

\* a tool from its call to the first suspension: SearXNGClient() builds the
\* Settings outside the try; search then rejects the request, which the
\* except turns into the returned text before __aexit__ finds no handle to
\* close, or sends the GET
ToolCall(name, query, page, env) ==
    /\ mode = "tool"
    /\ tool.state \in {"idle", "returned", "raised"}
    /\ ops < Budget
    /\ ops' = ops + 1
    /\ IF SettingsRaises(env)
       THEN /\ tool' = [name |-> name, state |-> "raised", search |-> NoSearch,
                        outcome |-> Raise(Exception("ValidationError",
                                       "validation error for Settings", 0, ""))]
            /\ last' = [op |-> "init"]
            /\ UNCHANGED <<settings, _client, is_closed, n_search, n_accepted,
                           n_requests, pc, local>>
       ELSE LET call == ToolSearch(name, query, page)
            IN  /\ settings' = env
                /\ n_search' = n_search + 1
                /\ IF SearchRequestRaises(call.query, call.page, call.kwargs)
                   THEN LET raised == Raise(Exception("ValidationError",
                                         "validation error for SearchRequest", 0, ""))
                        IN  /\ tool' = [name |-> name, state |-> "returned",
                                        search |-> NoSearch,
                                        outcome |-> tool_body(name, raised)]
                            /\ last' = [op |-> "search", task |-> 1, sent |-> FALSE,
                                        params |-> [q |-> call.query, pageno |-> call.page,
                                                    safesearch |-> call.kwargs.safesearch],
                                        outcome |-> raised]
                            /\ _client' = NoClient
                            /\ UNCHANGED <<is_closed, n_accepted, n_requests, pc, local>>
                   ELSE LET got == _get_client(NoClient, is_closed)
                        IN  /\ _client' = got.client
                            /\ is_closed' = got.is_closed
                            /\ n_accepted' = n_accepted + 1
                            /\ n_requests' = n_requests + 1
                            /\ pc' = [pc EXCEPT ![1] = "get"]
                            /\ local' = [local EXCEPT ![1] = [client |-> got.client]]
                            /\ tool' = [name |-> name, state |-> "running",
                                        search |-> NoSearch, outcome |-> Return(<<>>)]
                            /\ last' = [op |-> "get", task |-> 1,
                                        tool |-> name, query |-> query, page |-> page,
                                        params |-> to_params(
                                            SearchRequest(call.query, call.page,
                                                          call.kwargs))]
    /\ UNCHANGED mode

\* ToolResume that closes the client only after a search that returned
ToolResumeCloseOnSuccess(reply) ==
    /\ mode = "tool"
    /\ tool.state = "running"
    /\ pc[1] = "get"
    /\ LET outcome == search_reply(reply, settings.searxng_max_results)
           result == tool_body(tool.name, outcome)
       IN  /\ last' = [op |-> "search", task |-> 1, sent |-> TRUE, reply |-> reply,
                       outcome |-> outcome]
           /\ IF outcome.kind = "return" /\ _client # NoClient /\ ~is_closed[_client]
              THEN /\ is_closed' = [is_closed EXCEPT ![_client] = TRUE]
                   /\ pc' = [pc EXCEPT ![1] = "aclose"]
                   /\ local' = [local EXCEPT ![1] = [client |-> _client]]
                   /\ tool' = [tool EXCEPT !.state = "exiting",
                                           !.search = Searched(reply, outcome),
                                           !.outcome = result]
              ELSE /\ pc' = [pc EXCEPT ![1] = "idle"]
                   /\ local' = [local EXCEPT ![1] = NoLocal]
                   /\ tool' = [tool EXCEPT
                          !.state = IF result.kind = "return" THEN "returned" ELSE "raised",
                          !.search = Searched(reply, outcome),
                          !.outcome = result]
                   /\ UNCHANGED is_closed
    /\ UNCHANGED <<mode, settings, _client, n_search, n_accepted, n_requests, ops>>

\* a tool from the end of client.get: search returns or raises, the try
\* block makes the text, and __aexit__ calls close, which suspends in
\* aclose when the handle is open
ToolResume(reply) ==
    /\ mode = "tool"
    /\ tool.state = "running"
    /\ pc[1] = "get"
    /\ LET outcome == search_reply(reply, settings.searxng_max_results)
           result == tool_body(tool.name, outcome)
       IN  /\ last' = [op |-> "search", task |-> 1, sent |-> TRUE, reply |-> reply,
                       outcome |-> outcome]
           /\ IF _client # NoClient /\ ~is_closed[_client]
              THEN /\ is_closed' = [is_closed EXCEPT ![_client] = TRUE]
                   /\ pc' = [pc EXCEPT ![1] = "aclose"]
                   /\ local' = [local EXCEPT ![1] = [client |-> _client]]
                   /\ tool' = [tool EXCEPT !.state = "exiting",
                                           !.search = Searched(reply, outcome),
                                           !.outcome = result]
              ELSE /\ pc' = [pc EXCEPT ![1] = "idle"]
                   /\ local' = [local EXCEPT ![1] = NoLocal]
                   /\ tool' = [tool EXCEPT
                          !.state = IF result.kind = "return" THEN "returned" ELSE "raised",
                          !.search = Searched(reply, outcome),
                          !.outcome = result]
                   /\ UNCHANGED is_closed
    /\ UNCHANGED <<mode, settings, _client, n_search, n_accepted, n_requests, ops>>

\* a tool from the end of aclose: close resets the handle, __aexit__ ends
\* and the tool returns its text (or lets the exception of its body out)
ToolExit ==
    /\ mode = "tool"
    /\ tool.state = "exiting"
    /\ pc[1] = "aclose"
    /\ _client' = NoClient
    /\ pc' = [pc EXCEPT ![1] = "idle"]
    /\ tool' = [tool EXCEPT
           !.state = IF tool.outcome.kind = "return" THEN "returned" ELSE "raised"]
    /\ local' = [local EXCEPT ![1] = NoLocal]
    /\ last' = [op |-> "close", task |-> 1, waited |-> TRUE,
                held |-> local[1].client]
    /\ UNCHANGED <<mode, settings, is_closed, n_search, n_accepted, n_requests, ops>>

(***************************************************************************)
(* The specification.  A behaviour exercises one of: tasks sharing one     *)
(* client built from the default settings ("client"); one task on a client *)
(* of any valid settings, with every response body ("data"); the tools,    *)
(* each invocation building its client from the environment ("tool").      *)
(***************************************************************************)
Init ==
    \/ InitWith("client", {DefaultEnv})
    \/ InitWith("data", ValidEnvs)
    \/ InitWith("tool", {DefaultEnv})

Next ==
    \/ \E t \in Active, query \in Queries, page \in Pages(mode), kwargs \in Kwargs(mode) :
           mode # "tool" /\ SearchCall(t, query, page, kwargs)
    \/ \E t \in Active :
           /\ mode # "tool"
           /\ pc[t] = "get"
           /\ \E reply \in Replies(mode) : SearchReturn(t, reply)
    \/ \E t \in Active : mode # "tool" /\ CloseCall(t)
    \/ \E t \in Active : mode # "tool" /\ CloseReturn(t)
    \/ \E name \in Tools, query \in Queries, page \in Pages(mode), env \in Envs :
           ToolCall(name, query, page, env)
    \/ /\ tool.state = "running"
       /\ \E reply \in Replies(mode) : ToolResume(reply)
    \/ ToolExit

Spec == Init /\ [][Next]_vars

(***************************************************************************)
(* The models and the formatter on their own: a behaviour makes one call,  *)
(* which builds a SearchRequest and takes its parameters, parses the       *)
(* unresponsive_engines of a body, or formats a SearchResponse.            *)
(***************************************************************************)
\* the keyword arguments a caller can give to SearchRequest
AllKwargs ==
    [categories : {"general", "images"}, language : {None, "", "en"},
     time_range : {None, "", "day"}, safesearch : {-1, 0, 1, 2, 3}]

\* the elements an upstream unresponsive_engines array is made of
EngineItems ==
    {EngineItem("str", "bing"),
     EngineItem("list", <<JsonStr("artic"), JsonStr("parsing error")>>),
     EngineItem("list", <<JsonStr("brave"), JsonStr("timeout"), JsonNum(3)>>),
     EngineItem("list", <<JsonStr("solo")>>),
     EngineItem("list", <<JsonNum(7), JsonStr("HTTP error")>>),
     EngineItem("list", <<>>),
     EngineItem("other", <<>>)}

\* SearchRequest(q=query, pageno=page, **kwargs), then to_params()
SearchRequestCall(query, page, kwargs) ==
    /\ mode = "pure"
    /\ ops = 0
    /\ ops' = 1
    /\ last' = IF SearchRequestRaises(query, page, kwargs)
               THEN [op |-> "SearchRequest", raised |-> TRUE,
                     q |-> query, pageno |-> page, kwargs |-> kwargs]
               ELSE [op |-> "SearchRequest", raised |-> FALSE,
                     request |-> SearchRequest(query, page, kwargs),
                     params |-> to_params(SearchRequest(query, page, kwargs))]
    /\ UNCHANGED <<mode, settings, _client, is_closed, n_search, n_accepted,
                   n_requests, pc, local, tool>>

\* SearchResponse(**data) for a body with the given unresponsive_engines
SearchResponseCall(engines) ==
    /\ mode = "pure"
    /\ ops = 0
    /\ ops' = 1
    /\ LET data == [Object("python", <<>>) EXCEPT !.unresponsive_engines = engines]
       IN  last' = [op |-> "SearchResponse", engines |-> engines,
                    raised |-> SearchResponseRaises(data),
                    response |-> SearchResponse(data)]
    /\ UNCHANGED <<mode, settings, _client, is_closed, n_search, n_accepted,
                   n_requests, pc, local, tool>>

\* the results a SearchResponse handed to the formatter is made of: contents
\* of no, two and three characters and one longer than the default length
FormatResults ==
    {[url |-> "https://python.org/", title |-> "Python", content |-> <<>>],
     [url |-> "https://pypi.org/p", title |-> "PyPI", content |-> <<"a", "b">>],
     [url |-> None, title |-> "Docs", content |-> <<"a", "b", "c">>],
     [url |-> "https://pypi.org/p", title |-> "Long",
      content |-> Chars(DefaultMaxContentLen + 1, "x")]}

\* the suggestions of such a response: the first n of these
Suggestions(n) == SubSeq(<<"s1", "s2", "s3", "s4", "s5", "s6">>, 1, n)

\* the responses handed to the formatter
FormatResponses ==
    [query : {"python"}, number_of_results : {0, 10},
     results : SeqUpTo(FormatResults, MaxLen),
     suggestions : {Suggestions(n) : n \in 0..MaxSuggestions},
     corrections : {<<>>, <<"pyhton">>},
     unresponsive_engines : {<<>>, <<"bing">>}]

\* the truncation lengths the formatter is called with
ContentLens == 0..MaxLen \cup {DefaultMaxContentLen}

\* format_search_results(response, max_content_len)
FormatCall(response, max_content_len) ==
    /\ mode = "pure"
    /\ ops = 0
    /\ ops' = 1
    /\ last' = [op |-> "format", response |-> response,
                max_content_len |-> max_content_len,
                text |-> format_search_results(response, max_content_len)]
    /\ UNCHANGED <<mode, settings, _client, is_closed, n_search, n_accepted,
                   n_requests, pc, local, tool>>

\* the environments Settings() is built from on its own: each field at, next
\* to and far from the ends of its range
AllEnvs ==
    [searxng_url : {"https://searxng.pixelcrazed.com", "not a url"},
     searxng_timeout : {0, 1, 300, 301, 400},
     searxng_max_results : {0, 1, 100, 101, 200},
     mcp_transport : {"stdio", "sse", "invalid"},
     mcp_port : {0, 1, 65535, 65536, 70000},
     log_level : {"debug", "info", "warning", "error", "invalid"},
     cache_enabled : {"true", "false", "maybe"}]

\* SearXNGClient(): Settings() is built from the environment and, when it
\* does not raise, becomes self.settings of the client
SettingsCall(env) ==
    /\ mode = "pure"
    /\ ops = 0
    /\ ops' = 1
    /\ last' = [op |-> "Settings", env |-> env, raised |-> SettingsRaises(env)]
    /\ settings' = IF SettingsRaises(env) THEN settings ELSE env
    /\ UNCHANGED <<mode, _client, is_closed, n_search, n_accepted,
                   n_requests, pc, local, tool>>

InitPure == InitWith("pure", {DefaultEnv})

NextPure ==
    \/ /\ ops = 0
       /\ \E query \in Queries, page \in Pages("pure"), kwargs \in AllKwargs :
              SearchRequestCall(query, page, kwargs)
    \/ /\ ops = 0
       /\ \E engines \in SeqUpTo(EngineItems, MaxLen) : SearchResponseCall(engines)
    \/ /\ ops = 0
       /\ \E response \in FormatResponses, max_content_len \in ContentLens :
              FormatCall(response, max_content_len)
    \/ /\ ops = 0
       /\ \E env \in AllEnvs : SettingsCall(env)

SpecPure == InitPure /\ [][NextPure]_vars

(***************************************************************************)
(* Properties.                                                             *)
(***************************************************************************)
\* a call of search that sent its request has just ended
SearchEnded == last.op = "search" /\ last.sent

\* a call of search has just returned a SearchResponse
SearchReturned == SearchEnded /\ last.outcome.kind = "return"

\* the upstream `results` array of the body search has just parsed
Upstream ==
    IF Has(last.reply.data, "results") THEN last.reply.data.results ELSE <<>>

\* validity as the specification words it, on the upstream JSON entry: a
\* non-empty title and a present, non-blank url
GoodEntry(e) ==
    /\ e.title \notin {Missing, Null, ""}
    /\ e.url \notin {Missing, Null, "", " "}

\* the returned result r shows the upstream entry e
Shows(r, e) == r.title = e.title /\ r.url = HttpUrlStr(e.url)

\* C1: every element of the results that search returns has a non-empty
\* title and a present, non-blank url, and shows a valid upstream entry:
\* entries whose url is missing, null or "" or whose title is empty are
\* never among them.
C1_OnlyValidResults ==
    SearchReturned =>
        \A i \in 1..Len(last.outcome.value.results) :
            LET r == last.outcome.value.results[i]
            IN  /\ r.title # ""
                /\ r.url \notin {None, "", " "}
                /\ \E j \in 1..Len(Upstream) :
                       GoodEntry(Upstream[j]) /\ Shows(r, Upstream[j])
                /\ \A j \in 1..Len(Upstream) :
                       ~GoodEntry(Upstream[j]) => ~Shows(r, Upstream[j])

\* search returned one result out of three upstream entries, one of which
\* had an empty url and one no title
C1_Witness ==
    /\ SearchReturned
    /\ Len(last.outcome.value.results) = 1
    /\ Len(Upstream) = 3
    /\ \E j \in 1..3 : Upstream[j].url = ""
    /\ \E j \in 1..3 : Upstream[j].title \in {"", Missing}

\* the valid entries of an upstream array, in upstream order
RECURSIVE GoodOnly(_)
GoodOnly(entries) ==
    IF entries = <<>> THEN <<>>
    ELSE IF GoodEntry(Head(entries)) THEN <<Head(entries)>> \o GoodOnly(Tail(entries))
         ELSE GoodOnly(Tail(entries))

\* C2: with v valid upstream results and the cap m, search returns the
\* first min(m, v) valid results in upstream order: m of them when v > m,
\* all v otherwise; invalid entries do not count toward the cap.
C2_CapAfterFilter ==
    SearchReturned =>
        LET m == settings.searxng_max_results
            good == GoodOnly(Upstream)
            v == Len(good)
            results == last.outcome.value.results
        IN  /\ m \in 1..100
            /\ Len(results) = IF v > m THEN m ELSE v
            /\ \A i \in 1..Len(results) : Shows(results[i], good[i])

\* the cap cut a third valid result off while an invalid entry stood
\* before the valid ones
C2_Witness ==
    /\ SearchReturned
    /\ settings.searxng_max_results = 1
    /\ Len(Upstream) = 3
    /\ ~GoodEntry(Upstream[1])
    /\ Len(GoodOnly(Upstream)) = 2
    /\ Len(last.outcome.value.results) = 1

\* a tool invocation has ended
ToolEnded == tool.state \in {"returned", "raised"}

\* C3: a tool entry point never raises past its boundary, whatever fails
\* during the invocation.
C3_ToolNeverRaises == tool.state # "raised"

\* the three failure prefixes
FailurePrefixOf(name) ==
    IF name = "searxng_search" THEN "Search failed: "
    ELSE IF name = "searxng_search_images" THEN "Image search failed: "
    ELSE "Video search failed: "

\* the upstream answered the tool's request with an error status or not in time
UpstreamFailed(search) ==
    /\ search.sent
    /\ \/ search.reply.kind = "timeout"
       \/ search.reply.kind = "response" /\ search.reply.status_code >= 400

\* C4: when the upstream answers with an HTTP error status or the request
\* times out, the tool invocation ends by returning the failure string
\* "<Kind> search failed: <message>" ("Search failed: <message>" for
\* searxng_search) with the error's message, and no formatted result text.
C4_FailureString ==
    (ToolEnded /\ UpstreamFailed(tool.search)) =>
        /\ tool.state = "returned"
        /\ tool.outcome.kind = "return"
        /\ tool.search.outcome.kind = "raise"
        /\ tool.outcome.value =
               <<FailurePrefixOf(tool.name), tool.search.outcome.exc.message>>
        /\ tool.outcome.value[1] \notin {"Results for: ", "No results: "}

\* the image tool returned after the upstream answered 500
C4_Witness ==
    /\ tool.state = "returned"
    /\ tool.name = "searxng_search_images"
    /\ tool.search.sent
    /\ tool.search.reply.kind = "response"
    /\ tool.search.reply.status_code = 500
    /\ tool.outcome.value[1] = "Image search failed: "

\* C5: search lets upstream failures out: a status >= 400 raises
\* HTTPStatusError with the status code and the body, a timeout raises
\* TimeoutException, and no SearchResponse is returned.
C5_FailuresPropagate ==
    SearchEnded =>
        /\ (last.reply.kind = "response" /\ last.reply.status_code >= 400) =>
               /\ last.outcome.kind = "raise"
               /\ last.outcome.exc.type = "HTTPStatusError"
               /\ last.outcome.exc.status_code = last.reply.status_code
               /\ last.outcome.exc.text = last.reply.text
        /\ last.reply.kind = "timeout" =>
               /\ last.outcome.kind = "raise"
               /\ last.outcome.exc.type = "TimeoutException"

\* a search on the shared client raised HTTPStatusError for a 404
C5_Witness ==
    /\ mode = "client"
    /\ SearchEnded
    /\ last.reply.kind = "response"
    /\ last.reply.status_code = 404
    /\ last.outcome.kind = "raise"
    /\ last.outcome.exc.status_code = 404

\* C6: the outbound GETs are as many as the calls of search whose request
\* passed validation: one per call, whatever its outcome.
C6_OneRequestPerCall == n_requests = n_accepted

\* on the shared client, where every accepted request is the same one, two
\* searches have sent two requests and the last of them failed
C6_Witness ==
    /\ mode = "client"
    /\ n_accepted = 2
    /\ n_requests = 2
    /\ n_search = 2
    /\ SearchEnded
    /\ last.outcome.kind = "raise"
    /\ \A t \in Tasks : pc[t] = "idle"

\* every AsyncClient built so far is closed
AllClosed == \A h \in 1..Len(is_closed) : is_closed[h]

\* C7: scoped use of a client releases it on every exit path: when the
\* scope of a client that one task owns exits (__aexit__ is close), after
\* the body ended normally or raised, the handle is empty and the
\* connection closed; so after a tool invocation has ended, with its
\* results or with a failure string, no connection it made is open.
C7_ScopedRelease ==
    /\ (mode = "data" /\ last.op = "close") => (_client = NoClient /\ AllClosed)
    /\ (mode = "tool" /\ ToolEnded) => (_client = NoClient /\ AllClosed)

\* a tool returned its failure string after a search that raised, and the
\* connection it had opened is closed
C7_Witness ==
    /\ tool.state = "returned"
    /\ tool.search.sent
    /\ tool.search.outcome.kind = "raise"
    /\ Len(is_closed) >= 1
    /\ is_closed[Len(is_closed)]
    /\ _client = NoClient

\* the handle field holds no usable AsyncClient
NoOpenHandle == _client = NoClient \/ is_closed[_client]

\* C8, as stated: every call of search creates a new handle if and only if
\* the current handle is empty or closed.
C8_EverySearchCreates ==
    [][n_search' = n_search + 1 =>
          (Len(is_closed') = Len(is_closed) + 1 <=> NoOpenHandle)]_vars

\* C8, amended: a client holds no handle until its first accepted search;
\* a search whose request passes validation creates a new, open handle if
\* and only if the current handle is empty or closed and otherwise uses
\* the existing one; nothing else creates a handle, and the handle stays
\* as it is when a search ends, also when it ends in failure.
C8_LazyReuse ==
    /\ [](n_accepted = 0 => (_client = NoClient /\ is_closed = <<>>))
    /\ [][n_accepted' = n_accepted + 1 =>
            /\ mode = "tool" \/ \E t \in Tasks : pc[t] = "idle" /\ pc'[t] = "get"
            /\ IF mode = "tool" \/ NoOpenHandle
               THEN /\ Len(is_closed') = Len(is_closed) + 1
                    /\ _client' = Len(is_closed')
                    /\ ~is_closed'[_client']
                    /\ SubSeq(is_closed', 1, Len(is_closed)) = is_closed
               ELSE /\ is_closed' = is_closed
                    /\ _client' = _client]_vars
    /\ [][n_accepted' = n_accepted => Len(is_closed') = Len(is_closed)]_vars
    /\ [][(mode # "tool" /\ last'.op = "search") =>
              (_client' = _client /\ is_closed' = is_closed)]_vars

\* two accepted searches with no close in between have made one handle,
\* which is still open after the second of them failed
C8_Witness ==
    /\ mode = "client"
    /\ n_accepted = 2
    /\ ops = 2
    /\ Len(is_closed) = 1
    /\ _client = 1
    /\ ~is_closed[1]
    /\ SearchEnded
    /\ last.outcome.kind = "raise"

\* C9: after any call of close has returned, from whatever state it was
\* called in, the handle is empty and the connection it held is closed.
C9_CloseEmptiesHandle ==
    last.op = "close" =>
        /\ _client = NoClient
        /\ last.held # NoClient => is_closed[last.held]

\* the body of a 200 reply lacks the required query or is no JSON object
Malformed(reply) ==
    /\ reply.kind = "response"
    /\ reply.status_code = 200
    /\ \/ reply.data.json # "object"
       \/ reply.data.query \in {Missing, Null}

\* C10: when the body lacks the required query or cannot be parsed into a
\* SearchResponse, search raises and returns no response, and a tool ends
\* by returning its failure string, not formatted results.
C10_MalformedFails ==
    /\ (SearchEnded /\ Malformed(last.reply)) => last.outcome.kind = "raise"
    /\ (ToolEnded /\ tool.search.sent /\ Malformed(tool.search.reply)) =>
           /\ tool.state = "returned"
           /\ tool.outcome.kind = "return"
           /\ tool.outcome.value[1] = FailurePrefixOf(tool.name)
           /\ Len(tool.outcome.value) = 2

\* a tool returned its failure string for a JSON object without query
C10_Witness ==
    /\ tool.state = "returned"
    /\ tool.search.sent
    /\ tool.search.reply.kind = "response"
    /\ tool.search.reply.status_code = 200
    /\ tool.search.reply.data.json = "object"
    /\ tool.search.reply.data.query = Missing
    /\ tool.outcome.value[1] = "Search failed: "

\* the arguments of a request that SearchRequest rejects
Rejectable(params) ==
    \/ params.q = ""
    \/ params.pageno < 1
    \/ params.safesearch \notin {0, 1, 2}

\* C11: a search whose query is empty, whose page is below 1 or whose
\* safesearch is outside {0,1,2} raises a validation error before a handle is
\* made and before a request goes out: no request is ever sent with such
\* arguments, and the step of a rejected search leaves the handle, the
\* connections and the count of requests as they were
C11_RejectedBeforeRequest ==
    [][ /\ last'.op = "get" => ~Rejectable(last'.params)
        /\ (last'.op = "search" /\ ~last'.sent) =>
              /\ Rejectable(last'.params)
              /\ last'.outcome.kind = "raise"
              /\ last'.outcome.exc.type = "ValidationError"
              /\ UNCHANGED <<_client, is_closed, n_requests, n_accepted, pc, local>>
      ]_vars

\* a search with page 0 was rejected on a client that holds an open handle
C11_Witness ==
    /\ last.op = "search"
    /\ ~last.sent
    /\ last.params.q # ""
    /\ last.params.pageno < 1
    /\ _client # NoClient
    /\ ~is_closed[_client]
    /\ n_requests = 1

\* to_params has just been taken of a request that was built
ParamsTaken == last.op = "SearchRequest" /\ ~last.raised

\* the keys to_params always yields, with the values of the request
FixedParams(request, params) ==
    /\ {"q", "format", "categories", "pageno", "safesearch"} \subseteq DOMAIN params
    /\ DOMAIN params \subseteq
          {"q", "format", "categories", "pageno", "safesearch", "language", "time_range"}
    /\ params.q = request.q
    /\ params.format = "json"
    /\ params.categories = request.categories
    /\ params.pageno = request.pageno
    /\ params.safesearch = request.safesearch

\* C12 as stated: to_params yields q, format, categories, pageno and
\* safesearch; language (time_range) is a key exactly when a value was
\* supplied for it, and then with that value
C12_EverySuppliedValue ==
    ParamsTaken =>
        /\ FixedParams(last.request, last.params)
        /\ ("language" \in DOMAIN last.params) <=> (last.request.language # None)
        /\ ("time_range" \in DOMAIN last.params) <=> (last.request.time_range # None)
        /\ "language" \in DOMAIN last.params =>
               last.params.language = last.request.language
        /\ "time_range" \in DOMAIN last.params =>
               last.params.time_range = last.request.time_range

\* C12 amended: to_params yields q, format, categories, pageno and
\* safesearch; language (time_range) is a key exactly when a non-empty value
\* was supplied for it, and then with that value
C12_NonEmptySuppliedValue ==
    ParamsTaken =>
        /\ FixedParams(last.request, last.params)
        /\ ("language" \in DOMAIN last.params) <=>
               (last.request.language \notin {None, ""})
        /\ ("time_range" \in DOMAIN last.params) <=>
               (last.request.time_range \notin {None, ""})
        /\ "language" \in DOMAIN last.params =>
               last.params.language = last.request.language
        /\ "time_range" \in DOMAIN last.params =>
               last.params.time_range = last.request.time_range

\* a request with a time_range and an empty language gave its parameters
C12_Witness ==
    /\ ParamsTaken
    /\ last.request.language = ""
    /\ last.request.time_range = "day"
    /\ last.request.pageno = 2
    /\ "time_range" \in DOMAIN last.params

\* a body has just been parsed into a SearchResponse
EnginesParsed == last.op = "SearchResponse"

\* the name an element of unresponsive_engines is kept under
EngineName(item) == IF item.t = "str" THEN item.v ELSE str(item.v[1])

\* the elements C13 says are kept: strings and sequences of two items or more
KeptAsStated(item) == item.t = "str" \/ (item.t = "list" /\ Len(item.v) >= 2)

\* the elements kept: strings and sequences of one item or more
KeptNonEmpty(item) == item.t = "str" \/ (item.t = "list" /\ Len(item.v) >= 1)

\* C13 as stated: the normalized unresponsive_engines holds, in order, every
\* string element and the first item of every sequence of two items or
\* more; every other element (a one-item or empty sequence, a number, an
\* object) is dropped, and the response never fails
C13_PairsOnly ==
    EnginesParsed =>
        LET kept == SelectSeq(last.engines, KeptAsStated)
        IN  /\ ~last.raised
            /\ last.response.unresponsive_engines =
                   [i \in 1..Len(kept) |-> EngineName(kept[i])]

\* C13 amended: the normalized unresponsive_engines holds, in order, every
\* string element and the string form of the first item of every non-empty
\* sequence (one item or more); an empty sequence, a number or an object is
\* dropped, and the response never fails
C13_NonEmptySequences ==
    EnginesParsed =>
        LET kept == SelectSeq(last.engines, KeptNonEmpty)
        IN  /\ ~last.raised
            /\ last.response.unresponsive_engines =
                   [i \in 1..Len(kept) |-> EngineName(kept[i])]

\* ["bing", ["artic", "parsing error"], ["solo"]] was normalized
C13_Witness ==
    /\ EnginesParsed
    /\ last.engines =
          <<EngineItem("str", "bing"),
            EngineItem("list", <<JsonStr("artic"), JsonStr("parsing error")>>),
            EngineItem("list", <<JsonStr("solo")>>)>>
    /\ last.response.unresponsive_engines = <<"bing", "artic", "solo">>

\* a response has just been formatted
Formatted == last.op = "format"

\* C14: for a response with no results the text is the one-line message
\* naming the query and nothing else (no header, no block, no suggestions),
\* whatever suggestions, corrections, number_of_results and
\* unresponsive_engines are
C14_NoResultsMessageOnly ==
    (Formatted /\ last.response.results = <<>>) =>
        /\ last.text = <<"No results: ", last.response.query>>
        /\ \A i \in 1..Len(last.text) :
              /\ last.text[i] # "\n\n"
              /\ \A j \in 1..Len(last.response.suggestions) :
                    last.text[i] # last.response.suggestions[j]

\* a response with no results but suggestions, a correction, a count and an
\* unresponsive engine was formatted
C14_Witness ==
    /\ Formatted
    /\ last.response.results = <<>>
    /\ Len(last.response.suggestions) = 3
    /\ last.response.corrections # <<>>
    /\ last.response.number_of_results = 10
    /\ last.response.unresponsive_engines # <<>>
    /\ Len(last.text) = 2

\* the parts of a text that "\n\n" separates
RECURSIVE Parts(_)
Parts(text) ==
    IF \A i \in 1..Len(text) : text[i] # "\n\n" THEN <<text>>
    ELSE LET i == CHOOSE k \in 1..Len(text) :
                     /\ text[k] = "\n\n"
                     /\ \A j \in 1..(k - 1) : text[j] # "\n\n"
         IN  <<SubSeq(text, 1, i - 1)>> \o Parts(SubSeq(text, i + 1, Len(text)))

\* a response with at least one result has just been formatted
FormattedResults == Formatted /\ last.response.results # <<>>

\* the last n pieces of a part
Suffix(part, n) == SubSeq(part, Len(part) - n + 1, Len(part))

\* the pieces a content is written with
ContentPieces == {"a", "b", "c", "x", "..."}

\* what C15 says the snippet of content c at length L is
StatedSnippet(c, L) == IF Len(c) > L THEN SubSeq(c, 1, L) \o <<"...">> ELSE c

\* the block of the i-th result ends with the stated snippet of its content,
\* and nothing of a content stands before it
EndsWithSnippet(block, c, L) ==
    LET snippet == StatedSnippet(c, L)
    IN  /\ Len(block) > Len(snippet)
        /\ Suffix(block, Len(snippet)) = snippet
        /\ \A j \in 1..(Len(block) - Len(snippet)) : block[j] \notin ContentPieces

\* C15: the snippet of a result with content c at truncation length L is
\* the first L characters of c followed by "..." when len(c) > L, and c
\* itself with no ellipsis when len(c) <= L
C15_SnippetTruncation ==
    FormattedResults =>
        LET parts == Parts(last.text)
        IN  \A i \in 1..Len(last.response.results) :
               /\ i + 1 <= Len(parts)
               /\ EndsWithSnippet(parts[i + 1], last.response.results[i].content,
                                  last.max_content_len)

\* at length 2 a content of three characters was cut and one of two
\* characters, next to it, was not
C15_Witness ==
    /\ FormattedResults
    /\ last.max_content_len = 2
    /\ Len(last.response.results) = 2
    /\ Len(last.response.results[1].content) = 3
    /\ Len(last.response.results[2].content) = 2
    /\ Suffix(Parts(last.text)[2], 3) = <<"a", "b", "...">>
    /\ Suffix(Parts(last.text)[3], 3) = <<"\n   ", "a", "b">>

\* the smaller of two numbers
Min(a, b) == IF a < b THEN a ELSE b

\* the line lists exactly the suggestions s, in order, separated by ", ",
\* after a label
ListsSuggestions(line, s) ==
    /\ Len(line) = 2 * Len(s)
    /\ \A j \in 1..Len(s) : line[2 * j] = s[j]
    /\ \A j \in 1..(Len(s) - 1) : line[2 * j + 1] = ", "

\* C16: for a response with at least one result the text ends with a
\* suggestions line exactly when suggestions is non-empty; the line lists the
\* first min(3, n) suggestions in order, comma-separated, and no later
\* suggestion is anywhere in the text
C16_FirstThreeSuggestions ==
    FormattedResults =>
        LET parts == Parts(last.text)
            n == Len(last.response.results)
            s == last.response.suggestions
        IN  /\ Len(parts) = n + 1 + (IF s # <<>> THEN 1 ELSE 0)
            /\ s # <<>> => ListsSuggestions(parts[n + 2], SubSeq(s, 1, Min(3, Len(s))))
            /\ \A j \in 1..Len(s), i \in 1..Len(last.text) :
                  (j > 3 \/ i <= Len(last.text) - 2 * Min(3, Len(s))) =>
                      last.text[i] # s[j]

\* a response with one result and four suggestions was formatted: the line
\* lists three of them
C16_Witness ==
    /\ FormattedResults
    /\ Len(last.response.results) = 1
    /\ Len(last.response.suggestions) = 4
    /\ Suffix(last.text, 5) = <<"s1", ", ", "s2", ", ", "s3">>

\* the text a URL is shown as
UrlText(r) == IF r.url = None THEN "None" ELSE r.url

\* the block is numbered i and shows the title, then the URL, of result r
ShowsResult(block, i, r) ==
    /\ block[1] = ToString(i)
    /\ \E j, k \in 2..Len(block) :
          /\ j < k
          /\ block[j] = r.title
          /\ block[k] = UrlText(r)

\* C17: for a response with n >= 1 results the text is a header naming the
\* query, then exactly n blocks numbered 1..n in the order of the response,
\* the i-th showing title, URL and snippet of the i-th result
C17_OneBlockPerResult ==
    FormattedResults =>
        LET parts == Parts(last.text)
            n == Len(last.response.results)
        IN  /\ Len(parts) = n + 1 + (IF last.response.suggestions # <<>> THEN 1 ELSE 0)
            /\ \E j \in 1..Len(parts[1]) : parts[1][j] = last.response.query
            /\ \A i \in 1..n :
                  /\ ShowsResult(parts[i + 1], i, last.response.results[i])
                  /\ EndsWithSnippet(parts[i + 1], last.response.results[i].content,
                                     last.max_content_len)
            /\ \A i \in (n + 2)..Len(parts) :
                  \A r \in FormatResults : ~ShowsResult(parts[i], i - 1, r)

\* three results, the first and the last the same, were formatted
C17_Witness ==
    /\ FormattedResults
    /\ Len(last.response.results) = 3
    /\ last.response.results[1] = last.response.results[3]
    /\ last.response.results[1] # last.response.results[2]
    /\ Parts(last.text)[4][1] = "3"

\* piece p, then piece q, stand in the text
Follows(text, p, q) ==
    \E i \in 1..(Len(text) - 1) : text[i] = p /\ text[i + 1] = q

\* C18: for a response with n >= 1 results the text holds the header
\* "Search results for: <query>" and the count line "Found <n> results", and
\* holds the label "Related searches:" exactly when suggestions is non-empty
C18_TestLabels ==
    FormattedResults =>
        /\ Follows(last.text, "Search results for: ", last.response.query)
        /\ \E i \in 1..Len(last.text) :
              last.text[i] = "Found " \o ToString(Len(last.response.results)) \o " results"
        /\ (\E i \in 1..Len(last.text) : last.text[i] = "Related searches:")
              <=> last.response.suggestions # <<>>

\* C19: for a response with no results and query q the text holds
\* "No results found for: " followed by q
C19_NoResultsFoundFor ==
    (Formatted /\ last.response.results = <<>>) =>
        Follows(last.text, "No results found for: ", last.response.query)

\* a tool has just sent its request
ToolSent == mode = "tool" /\ last.op = "get"

\* C20: the request of a tool carries the category fixed for the tool
\* (general, images, videos) and the page argument as pageno, for every
\* query and page; the request of searxng_search, made through search_text,
\* is the request of search(q, p, categories="general")
C20_ToolCategories ==
    ToolSent =>
        /\ last.params.q = last.query
        /\ last.params.pageno = last.page
        /\ last.tool = "searxng_search" =>
               last.params = [q |-> last.query, format |-> "json",
                              categories |-> "general", pageno |-> last.page,
                              safesearch |-> 1]
        /\ last.tool = "searxng_search_images" => last.params.categories = "images"
        /\ last.tool = "searxng_search_videos" => last.params.categories = "videos"

\* searxng_search has sent the request for page 2
C20_Witness ==
    /\ ToolSent
    /\ last.tool = "searxng_search"
    /\ last.page = 2
    /\ last.params.pageno = 2
    /\ last.params.categories = "general"
    /\ n_requests = 2

\* Settings() has just been built, or has failed
SettingsBuilt == last.op = "Settings"

\* the five constraints C21 names
FiveConstraints(env) ==
    /\ env.searxng_timeout \in 1..300
    /\ env.searxng_max_results \in 1..100
    /\ env.mcp_port \in 1..65535
    /\ env.mcp_transport \in {"stdio", "sse"}
    /\ env.log_level \in {"debug", "info", "warning", "error"}

\* C21 as stated: Settings is built if and only if timeout is in [1,300],
\* max-results in [1,100], port in [1,65535], transport in {stdio, sse} and
\* log level in {debug, info, warning, error}; a client holds a cap in
\* 1..100 and a timeout in 1..300
C21_FiveConstraintsOnly ==
    SettingsBuilt =>
        /\ ~last.raised <=> FiveConstraints(last.env)
        /\ settings.searxng_max_results \in 1..100
        /\ settings.searxng_timeout \in 1..300

\* C21 amended: Settings is built if and only if the five constraints hold
\* and the URL is an HTTP(S) URL and the cache flag a boolean; when it is
\* built the client holds its values, a cap in 1..100 and a timeout in
\* 1..300, and when it is not no client is made
C21_EveryConstraint ==
    SettingsBuilt =>
        /\ ~last.raised <=>
              /\ FiveConstraints(last.env)
              /\ last.env.searxng_url = "https://searxng.pixelcrazed.com"
              /\ last.env.cache_enabled \in {"true", "false"}
        /\ ~last.raised => settings = last.env
        /\ last.raised => settings = DefaultEnv
        /\ settings.searxng_max_results \in 1..100
        /\ settings.searxng_timeout \in 1..300

\* Settings was built with every integer at the upper end of its range
C21_Witness ==
    /\ SettingsBuilt
    /\ ~last.raised
    /\ settings.searxng_timeout = 300
    /\ settings.searxng_max_results = 100
    /\ settings.mcp_port = 65535
    /\ settings.mcp_transport = "sse"

\* C22: whatever the interleaving of search and close on one client, every
\* handle the client has made is closed or is the one its handle field
\* refers to; so when no call is in progress and a close has just returned,
\* no connection the client made is open
C22_NoOrphanedHandle ==
    /\ \A h \in 1..Len(is_closed) : is_closed[h] \/ h = _client
    /\ (last.op = "close" /\ \A t \in Tasks : pc[t] = "idle") => AllClosed

\* an entry of results that fails model construction: its url is a
\* non-empty string that is no HTTP(S) URL, or its title is null
FailsConstruction(e) ==
    \/ e.url \notin {Missing, Null, "", "https://python.org", "https://pypi.org/p"}
    \/ e.title = Null

\* a search has ended on a 200 reply whose body is an object with a query
\* and a results array
ParsedResults ==
    /\ mode # "pure"
    /\ SearchEnded
    /\ last.reply.kind = "response"
    /\ last.reply.status_code = 200
    /\ last.reply.data.json = "object"
    /\ last.reply.data.query \notin {Missing, Null}
    /\ Has(last.reply.data, "results")

\* C23: the results array is parsed all or nothing: when one entry fails
\* construction search raises a validation error and returns no result, the
\* entry is not dropped on its own; when no entry fails, search returns,
\* so null content, an empty-string url and a malformed engine entry are
\* recovered: the content is empty, the url absent, the engine entry dropped
C23_AllOrNothing ==
    ParsedResults =>
        LET entries == last.reply.data.results
        IN  IF \E i \in 1..Len(entries) : FailsConstruction(entries[i])
            THEN /\ last.outcome.kind = "raise"
                 /\ last.outcome.exc.type = "ValidationError"
            ELSE /\ last.outcome.kind = "return"
                 /\ \A j \in 1..Len(last.outcome.value.results) :
                       \E i \in 1..Len(entries) :
                          /\ Shows(last.outcome.value.results[j], entries[i])
                          /\ entries[i].content.t \in {"null", "missing"} =>
                                last.outcome.value.results[j].content = <<>>
                 /\ \A k \in 1..Len(last.outcome.value.unresponsive_engines) :
                       last.outcome.value.unresponsive_engines[k] \in {"bing", "artic"}

\* a search raised on a body whose first entry is good and whose second
\* has a url that is no URL
C23_Witness ==
    /\ ParsedResults
    /\ Len(last.reply.data.results) = 2
    /\ last.reply.data.results[1] = EntryPython
    /\ last.reply.data.results[2] = EntryBadUrl
    /\ last.outcome.kind = "raise"

\* the value a key of the upstream body has, or the default of its field
Parsed(data, key, default) == IF Has(data, key) THEN data[key] ELSE default

\* C24: search changes only `results`: in the response it returns, query,
\* number_of_results, suggestions, corrections and the normalized
\* unresponsive_engines are the values parsed from the upstream body, and
\* number_of_results is not set to the number of results returned
C24_OnlyResultsChange ==
    (mode # "pure" /\ SearchReturned) =>
        LET data == last.reply.data
            value == last.outcome.value
            engines == SelectSeq(Parsed(data, "unresponsive_engines", <<>>), KeptNonEmpty)
        IN  /\ value.query = data.query
            /\ value.number_of_results = Parsed(data, "number_of_results", 0)
            /\ value.suggestions = Parsed(data, "suggestions", <<>>)
            /\ value.corrections = Parsed(data, "corrections", <<>>)
            /\ value.unresponsive_engines =
                   [i \in 1..Len(engines) |-> EngineName(engines[i])]

\* a search returned one result of three upstream entries, with the
\* upstream count of 10 and the upstream suggestions
C24_Witness ==
    /\ mode = "data"
    /\ SearchReturned
    /\ Len(last.reply.data.results) = 3
    /\ Len(last.outcome.value.results) = 1
    /\ last.outcome.value.number_of_results = 10
    /\ last.outcome.value.suggestions = <<"python tutorial">>
    /\ last.outcome.value.unresponsive_engines = <<"bing", "artic">>

====
